---- MODULE Spec2Model ----
(***************************************************************************)
(* Authentication and request-authorization pipeline of the Triton admin   *)
(* gateway: configuration loading, login (UfdsService::authenticate and    *)
(* auth::authenticate), session tokens (create_token / verify_token) and   *)
(* the request gate (AuthMiddlewareService::call) in front of the          *)
(* protected routes.                                                       *)
(* Spec serves whole requests one after another; ConcurrentSpec runs       *)
(* several calls of auth::authenticate step by step.                       *)
(*                                                                         *)
(* Text is TLA+ strings.  A compact token is kept as a record of its       *)
(* dot-separated segments; the HMAC is symbolic: a signature is the tuple  *)
(* of the key and the signed input.  A text that ends in a compact token   *)
(* is the pair of its leading characters and the token.                    *)
(***************************************************************************)
EXTENDS Integers, Sequences, FiniteSets, TLC

\* ------------------------------------------------------------------ bounds
T0 == 10000          \* clock value (seconds since epoch) at startup
NegHours == 1        \* JWT_EXPIRATION is tried from -NegHours ...
MaxHours == 1        \* ... up to MaxHours
MaxCalls == 2        \* calls of auth::authenticate in progress at once

\* --------------------------------------------------------- program constants
SecondsPerHour == 3600   \* chrono Duration::hours
Leeway == 60             \* jsonwebtoken Validation::default().leeway
BearerLen == 7           \* &auth_str[7..]
DefaultExpiration == 60  \* JWT_EXPIRATION when unset

\* JWT_SECRET of this deployment, and the secret of another one
Secrets == {"s1"}
OtherSecrets == {"s2"}

\* ------------------------------------------------------------------ text
starts_with(s, p) == Len(s) >= Len(p) /\ SubSeq(s, 1, Len(p)) = p

\* First position of pattern p in s, 0 when s does not contain p.
find(s, p) ==
    LET hits == {i \in 1..(Len(s) - Len(p) + 1) : SubSeq(s, i, i + Len(p) - 1) = p}
    IN IF hits = {} THEN 0 ELSE CHOOSE i \in hits : \A j \in hits : i <= j

contains(s, p) == find(s, p) # 0

\* s.split(p).next(): the text before the first p (all of s without one).
split_first(s, p) == IF contains(s, p) THEN SubSeq(s, 1, find(s, p) - 1) ELSE s

\* The text after the first p.
after_first(s, p) == SubSeq(s, find(s, p) + Len(p), Len(s))

\* s.trim(): without its leading and trailing spaces
trim(s) ==
    LET inked == {i \in 1..Len(s) : SubSeq(s, i, i) # " "} IN
    IF inked = {} THEN ""
    ELSE SubSeq(s, CHOOSE i \in inked : \A j \in inked : i <= j,
                   CHOOSE i \in inked : \A j \in inked : i >= j)

NoToken == [segments |-> 0, alg |-> "", payload |-> <<>>, signature |-> <<>>]

\* The text `pre` followed by the compact form of `tok` (nothing for NoToken).
\* A compact token is base64url text with dots: it holds no space.
Text(pre, tok) == [pre |-> pre, tok |-> tok]

\* Faulty variant: the prefix compared without regard to the case of its first letter
text_starts_with_any_case(t, p) == starts_with(t.pre, p) \/ starts_with(t.pre, "bearer ")

text_starts_with(t, p) == starts_with(t.pre, p)

\* &t[n..] for a text whose first n characters lie in t.pre
text_from(t, n) == Text(SubSeq(t.pre, n + 1, Len(t.pre)), t.tok)

\* ------------------------------------------------------------ configuration
\* A URL is its scheme (the text before "://", "" when there is none) and the
\* rest; url.starts_with("ldap://") is url.scheme = "ldap".
Url(scheme, rest) == [scheme |-> scheme, rest |-> rest]
Urls ==
    {Url("ldap", "ufds"), Url("ldaps", "ufds"), Url("http", "ufds"), Url("https", "ufds"),
     Url("", "ufds")}

\* A URL whose host is no host name: the directory client cannot parse it.
BadUrl == Url("ldaps", "[")
parseable(url) == url.rest # "["

Config(jwt_secret, jwt_expiration, ufds_url) ==
    [jwt_secret |-> jwt_secret, jwt_expiration |-> jwt_expiration, ufds_url |-> ufds_url]

\* A variable of the process environment: unset, or set to a text.
Unset == [set |-> FALSE, text |-> ""]
Set(text) == [set |-> TRUE, text |-> text]

VARIABLE
    environment    \* the process environment: JWT_SECRET, JWT_EXPIRATION,
                   \* UFDS_URL, LDAP_VERIFY_CERTIFICATES (the other variables
                   \* Config::from_env requires are set)

\* str::parse::<i64>: the integer a text is the decimal form of, if any
I64Texts == (0 - NegHours)..MaxHours \cup {DefaultExpiration}
parse_i64(text) ==
    IF \E n \in I64Texts : ToString(n) = text
    THEN [ok |-> TRUE, val |-> CHOOSE n \in I64Texts : ToString(n) = text]
    ELSE [ok |-> FALSE, val |-> 0]

\* env::var(..).unwrap_or_else(|_| default)
var_or(v, default) == IF v.set THEN v.text ELSE default

NoConfig == Config("", 0, Url("", ""))

\* Config::from_env: JWT_SECRET is any string, JWT_EXPIRATION any i64 that
\* parses ("60" when unset), UFDS_URL any string; a missing variable or an
\* expiration that does not parse is an error.
from_env(env) ==
    IF ~env.JWT_SECRET.set
    THEN [ok |-> FALSE, val |-> NoConfig, err |-> "environment variable not found"]
    ELSE IF ~parse_i64(var_or(env.JWT_EXPIRATION, ToString(DefaultExpiration))).ok
    THEN [ok |-> FALSE, val |-> NoConfig, err |-> "invalid digit found in string"]
    ELSE IF ~env.UFDS_URL.set
    THEN [ok |-> FALSE, val |-> NoConfig, err |-> "environment variable not found"]
    ELSE [ok |-> TRUE,
          val |-> Config(env.JWT_SECRET.text,
                         parse_i64(var_or(env.JWT_EXPIRATION, ToString(DefaultExpiration))).val,
                         env.UFDS_URL.text),
          err |-> ""]

Env(secret, expiration, url, verify) ==
    [JWT_SECRET |-> secret, JWT_EXPIRATION |-> expiration, UFDS_URL |-> url,
     LDAP_VERIFY_CERTIFICATES |-> verify]

\* The environments the process is started in: every expiration with the
\* secured directory URL, every URL with the expiration of one hour, the
\* certificate toggle set to several texts, a directory URL that cannot be
\* parsed, and environments without the secret or with an expiration that is
\* no number.
Environments ==
    {Env(Set(s), Set(ToString(h)), Set(Url("ldaps", "ufds")), Unset) :
        s \in Secrets, h \in (0 - NegHours)..MaxHours}
    \cup {Env(Set(s), Set("1"), Set(u), Unset) : s \in Secrets, u \in Urls \cup {BadUrl}}
    \cup {Env(Set(s), Set("1"), Set(Url("ldaps", "ufds")), Set(v)) :
            s \in Secrets, v \in {"false", "False", "0"}}
    \cup {Env(Unset, Set("1"), Set(Url("ldaps", "ufds")), Unset),
          Env(Set("s1"), Set("soon"), Set(Url("ldaps", "ufds")), Unset)}

\* The configurations main loads and serves with.
ConfigFromEnv == {from_env(env).val : env \in {e \in Environments : from_env(e).ok}}

\* ------------------------------------------------------------------ tokens
\* Faulty variant: exp and iat written under each other's name
Serialize_swapped(claims) ==
    << <<"sub", claims.sub>>, <<"name", claims.name>>, <<"email", claims.email>>,
       <<"roles", claims.roles>>, <<"exp", claims.iat>>, <<"iat", claims.exp>> >>

\* serde serialises Claims as a JSON object, members in field order.
Serialize(claims) ==
    << <<"sub", claims.sub>>, <<"name", claims.name>>, <<"email", claims.email>>,
       <<"roles", claims.roles>>, <<"exp", claims.exp>>, <<"iat", claims.iat>> >>

HasMember(json, key) == \E i \in DOMAIN json : json[i][1] = key
Member(json, key) == json[CHOOSE i \in DOMAIN json : json[i][1] = key][2]

ClaimFields == {"sub", "name", "email", "roles", "exp", "iat"}

Deserialize(json) ==
    [sub |-> Member(json, "sub"), name |-> Member(json, "name"),
     email |-> Member(json, "email"), roles |-> Member(json, "roles"),
     exp |-> Member(json, "exp"), iat |-> Member(json, "iat")]

\* HMAC-SHA256 of header.payload under key, kept symbolic.
Sign(key, alg, payload) == <<key, alg, payload>>

\* jsonwebtoken::encode with Header::default() (HS256).
encode(alg, claims, key) ==
    [segments |-> 3, alg |-> alg, payload |-> Serialize(claims),
     signature |-> Sign(key, alg, Serialize(claims))]

Ok(v) == [ok |-> TRUE, val |-> v, err |-> ""]
NoClaims == [sub |-> "", name |-> "", email |-> "", roles |-> <<>>, exp |-> 0, iat |-> 0]
Err(e) == [ok |-> FALSE, val |-> NoClaims, err |-> e]

\* Faulty variant: the signature is not compared
decode_unchecked_signature(text, key, time) ==
    IF text.pre # "" \/ text.tok.segments # 3
    THEN Err("InvalidToken")
    ELSE LET t == text.tok IN
         IF t.alg # "HS256" THEN Err("InvalidAlgorithm")
         ELSE IF \E f \in ClaimFields : ~HasMember(t.payload, f) THEN Err("Json")
         ELSE IF Member(t.payload, "exp") < time - Leeway THEN Err("ExpiredSignature")
         ELSE Ok(Deserialize(t.payload))

\* Faulty variant: exp is not validated
decode_unchecked_expiry(text, key, time) ==
    IF text.pre # "" \/ text.tok.segments # 3
    THEN Err("InvalidToken")
    ELSE LET t == text.tok IN
         IF t.alg # "HS256" THEN Err("InvalidAlgorithm")
         ELSE IF t.signature # Sign(key, t.alg, t.payload) THEN Err("InvalidSignature")
         ELSE IF \E f \in ClaimFields : ~HasMember(t.payload, f) THEN Err("Json")
         ELSE Ok(Deserialize(t.payload))

\* jsonwebtoken::decode with Validation::default(): algorithms = [HS256],
\* validate_exp, leeway.  `text` is the candidate token text, `time` the clock.
decode(text, key, time) ==
    IF text.pre # "" \/ text.tok.segments # 3
    THEN Err("InvalidToken")
    ELSE LET t == text.tok IN
         IF t.alg # "HS256" THEN Err("InvalidAlgorithm")
         ELSE IF t.signature # Sign(key, t.alg, t.payload) THEN Err("InvalidSignature")
         ELSE IF \E f \in ClaimFields : ~HasMember(t.payload, f) THEN Err("Json")
         ELSE IF Member(t.payload, "exp") < time - Leeway THEN Err("ExpiredSignature")
         ELSE Ok(Deserialize(t.payload))

\* The Claims create_token builds at clock value `time`.
claims_at(user_id, name, email, roles, expiration_hours, time) ==
    [sub |-> user_id, name |-> name, email |-> email, roles |-> roles,
     iat |-> time, exp |-> time + expiration_hours * SecondsPerHour]

\* create_token: the claims stamped with the clock, signed with the secret.
create_token(secret, user_id, name, email, roles, expiration_hours, time) ==
    encode("HS256", claims_at(user_id, name, email, roles, expiration_hours, time), secret)

\* .map_err(|e| AppError::AuthError(format!("Invalid token: {}", e)))
map_err(r) == IF r.ok THEN r ELSE Err("Invalid token: " \o r.err)

\* Faulty variant: the token decoded without checking its signature
verify_token_any_signature(token, secret, time) ==
    map_err(decode_unchecked_signature(token, secret, time))

\* verify_token: decode, the error wrapped as AppError::AuthError.
verify_token(token, secret, time) == map_err(decode(token, secret, time))

\* --------------------------------------------------------------- directory
\* A directory entry: each attribute is its list of values (<<>> when absent).
Entry(uuid, givenName, sn, cn, email, memberof, isAdmin) ==
    [uuid |-> uuid, givenName |-> givenName, sn |-> sn, cn |-> cn, email |-> email,
     memberof |-> memberof, isAdmin |-> isAdmin]

EntryAlice == Entry(<<"aaaaaaaa-aaaa-4aaa-8aaa-aaaaaaaaaaaa">>, <<"Alice">>, <<"Lee">>, <<"alice">>,
                    <<"alice@corp">>, <<"cn=operators,ou=groups,o=smartdc">>, <<"true">>)
EntryBare == Entry(<<>>, <<>>, <<>>, <<>>, <<>>, <<>>, <<>>)
EntryRoot == Entry(<<"bbbbbbbb-bbbb-4bbb-8bbb-bbbbbbbbbbbb">>, <<>>, <<"Root">>, <<"root">>, <<>>,
                   <<"cn=admin,ou=groups,o=smartdc", "ou=misc">>, <<"true">>)

\* What the directory server does during one authentication: whether the TLS
\* connector builds, the connection opens, simple_bind returns Ok, search
\* returns Ok, the entries it returns, whether the blocking worker is joined,
\* and whether the certificate the server presents is valid.  refused tells
\* whether the server's answer to the bind carries a result code other than
\* success (invalidCredentials): simple_bind returns that answer as
\* Ok(LdapResult), and the connection stays anonymous.
Directory(tls, connect, bind, search, entries, worker, cert) ==
    [tls |-> tls, connect |-> connect, bind |-> bind, search |-> search,
     entries |-> entries, worker |-> worker, cert |-> cert, refused |-> FALSE]

\* The same directory, refusing the credentials of the bind.
Refusing(dir) == [dir EXCEPT !.refused = TRUE]

Directories ==
    {Directory(FALSE, TRUE, TRUE, TRUE, <<EntryAlice>>, TRUE, TRUE),
     Directory(TRUE, FALSE, TRUE, TRUE, <<EntryAlice>>, TRUE, TRUE),
     Directory(TRUE, TRUE, FALSE, TRUE, <<EntryAlice>>, TRUE, TRUE),
     Directory(TRUE, TRUE, TRUE, FALSE, <<EntryAlice>>, TRUE, TRUE),
     Directory(TRUE, TRUE, TRUE, TRUE, <<>>, TRUE, TRUE),
     Directory(TRUE, TRUE, TRUE, TRUE, <<EntryAlice>>, FALSE, TRUE),
     Directory(TRUE, TRUE, TRUE, TRUE, <<EntryAlice>>, TRUE, TRUE),
     Directory(TRUE, TRUE, TRUE, TRUE, <<EntryBare, EntryAlice>>, TRUE, TRUE),
     Directory(TRUE, TRUE, TRUE, TRUE, <<EntryRoot>>, TRUE, TRUE),
     Directory(TRUE, TRUE, TRUE, TRUE, <<EntryAlice>>, TRUE, FALSE),
     Refusing(Directory(TRUE, TRUE, TRUE, TRUE, <<EntryAlice>>, TRUE, TRUE)),
     Refusing(Directory(TRUE, TRUE, TRUE, TRUE, <<>>, TRUE, TRUE))}

NoUser == [uuid |-> "", login |-> "", email |-> "", name |-> "", is_admin |-> FALSE, roles |-> <<>>]
UserOk(u) == [ok |-> TRUE, val |-> u, err |-> ""]
UserErr(e) == [ok |-> FALSE, val |-> NoUser, err |-> e]

\* format!("{}", e) for the error e a library call returned: what the text
\* says is the library's, and differs from one kind of failure to another.
ErrText(what) == "<" \o what \o " error>"

\* Faulty variant: "admin" pushed whenever the flag is set
with_admin_always(roles, is_admin) == IF is_admin THEN Append(roles, "admin") ELSE roles

\* Faulty variant: no default for a missing attribute
first_or_nothing(values, default) == IF values = <<>> THEN "" ELSE values[1]

\* attrs.get(a).and_then(|v| v.first()).unwrap_or(default)
first_or(values, default) == IF values = <<>> THEN default ELSE values[1]

\* group_dn.split("cn=").nth(1).and_then(|s| s.split(',').next()), for a
\* group_dn that contains "cn=": the text after the first "cn=", up to the
\* next "cn=" and up to the first comma in that.
role_of(group_dn) ==
    LET n == Len(group_dn)
        from == 3 + CHOOSE i \in 1..(n - 2) :
                        /\ SubSeq(group_dn, i, i + 2) = "cn="
                        /\ \A j \in 1..(i - 1) : SubSeq(group_dn, j, j + 2) # "cn="
        stops == {j \in from..n : \/ SubSeq(group_dn, j, j) = ","
                                  \/ j + 2 <= n /\ SubSeq(group_dn, j, j + 2) = "cn="}
    IN SubSeq(group_dn, from, IF \E j \in stops : TRUE
                              THEN (CHOOSE j \in stops : \A k \in stops : j <= k) - 1
                              ELSE n)

has_cn(group_dn) == contains(group_dn, "cn=")

\* the role of every memberof value that contains "cn=", in order
roles_of(member_of) ==
    LET groups == SelectSeq(member_of, has_cn) IN
    [i \in DOMAIN groups |-> role_of(groups[i])]

seq_contains(seq, v) == \E i \in DOMAIN seq : seq[i] = v

\* char::to_lowercase for an ASCII character
UpperCase == "ABCDEFGHIJKLMNOPQRSTUVWXYZ"
LowerCase == "abcdefghijklmnopqrstuvwxyz"
lower_char(ch) ==
    IF \E i \in 1..Len(UpperCase) : SubSeq(UpperCase, i, i) = ch
    THEN LET i == CHOOSE i \in 1..Len(UpperCase) : SubSeq(UpperCase, i, i) = ch
         IN SubSeq(LowerCase, i, i)
    ELSE ch
lower_at(text, i) == IF i > Len(text) THEN "" ELSE lower_char(SubSeq(text, i, i))

\* str::to_lowercase, for a text of at most five ASCII characters
to_lowercase(text) ==
    lower_at(text, 1) \o lower_at(text, 2) \o lower_at(text, 3)
        \o lower_at(text, 4) \o lower_at(text, 5)

\* Faulty variant: verification is off unless the variable is set
verify_certs_unless_unset(v) == v.set /\ to_lowercase(v.text) # "false"

\* env::var("LDAP_VERIFY_CERTIFICATES").map(|v| v.to_lowercase() != "false")
\*     .unwrap_or(true)
verify_certs(v) == IF v.set THEN to_lowercase(v.text) # "false" ELSE TRUE

\* Faulty variant: the configured URL kept as the directory URL whatever its scheme
UfdsService_new_as_configured(base_url) ==
    [ldaps_url |-> base_url,
     api_url |-> base_url,
     ldap_use_tls |-> (base_url.scheme # "ldap"),
     ldap_base_dn |-> "o=smartdc",
     ldap_verify_certs |-> verify_certs(environment.LDAP_VERIFY_CERTIFICATES)]

\* UfdsService::new: the service's fields, from the configured URL and the
\* process environment.
UfdsService_new(base_url) ==
    IF base_url.scheme = "ldaps" \/ base_url.scheme = "ldap"
    THEN [ldaps_url |-> base_url,
          api_url |-> Url("http", split_first(split_first(base_url.rest, "/"), ":") \o ":3000"),
          ldap_use_tls |-> (base_url.scheme = "ldaps"),
          ldap_base_dn |-> "o=smartdc",
          ldap_verify_certs |-> verify_certs(environment.LDAP_VERIFY_CERTIFICATES)]
    ELSE [ldaps_url |-> Url("ldaps", split_first(base_url.rest, "/") \o ":636"),
          api_url |-> base_url,
          ldap_use_tls |-> TRUE,
          ldap_base_dn |-> "o=smartdc",
          ldap_verify_certs |-> verify_certs(environment.LDAP_VERIFY_CERTIFICATES)]

\* if is_admin && !roles.contains("admin") { roles.push("admin") }
with_admin(roles, is_admin) ==
    IF is_admin /\ ~seq_contains(roles, "admin") THEN Append(roles, "admin") ELSE roles

\* "{givenName} {sn}" trimmed, or cn, or the username
name_of(first_name, last_name, cn, username) ==
    IF first_name # "" \/ last_name # ""
    THEN trim(first_name \o " " \o last_name)
    ELSE first_or(cn, username)

is_true(values) == values # <<>> /\ values[1] = "true"

\* The record built from the first entry of a search result.
user_of_entry(entry, username) ==
    [uuid |-> first_or(entry.uuid, "unknown"),
     login |-> username,
     email |-> first_or(entry.email, username \o "@example.com"),
     name |-> name_of(first_or(entry.givenName, ""), first_or(entry.sn, ""), entry.cn, username),
     is_admin |-> is_true(entry.isAdmin),
     roles |-> with_admin(roles_of(entry.memberof), is_true(entry.isAdmin))]

\* LdapConn::with_settings / LdapConn::new: the URL is parsed, the connection
\* opened and, on ldaps://, the TLS handshake made with the connector built
\* with danger_accept_invalid_certs(!ldap_verify_certs).
connects(this, dir) ==
    /\ parseable(this.ldaps_url)
    /\ dir.connect
    /\ this.ldaps_url.scheme = "ldaps" => (dir.cert \/ ~this.ldap_verify_certs)

\* UfdsService::authenticate_ldap against a directory that behaves as `dir`:
\* the result and the directory operations attempted, in order.
authenticate_ldap(this, username, password, dir) ==
    LET secured == this.ldaps_url.scheme = "ldaps" IN
    IF secured /\ ~dir.tls
    THEN [result |-> UserErr("TLS configuration error: " \o ErrText("tls")), ops |-> <<>>]
    ELSE IF ~connects(this, dir)
    THEN [result |-> UserErr((IF secured THEN "Cannot connect to LDAPS server: "
                              ELSE "Cannot connect to LDAP server: ") \o ErrText("connect")),
          ops |-> <<"connect">>]
    ELSE IF ~dir.bind
    THEN [result |-> UserErr("Authentication failed: " \o ErrText("bind")), ops |-> <<"connect", "bind">>]
    ELSE IF ~dir.search
    THEN [result |-> UserErr("Failed to retrieve user information: " \o ErrText("search")),
          ops |-> <<"connect", "bind", "search">>]
    ELSE IF dir.entries = <<>>
    THEN [result |-> UserErr("User " \o username \o " not found in directory"),
          ops |-> <<"connect", "bind", "search">>]
    ELSE [result |-> UserOk(user_of_entry(dir.entries[1], username)),
          ops |-> <<"connect", "bind", "search">>]

\* ------------------------------------------------------------------- login
DevAdmin == [uuid |-> "00000000-0000-0000-0000-000000000000", login |-> "admin",
             email |-> "admin@example.com", name |-> "Administrator",
             is_admin |-> FALSE, roles |-> <<"admin">>]
DevOperator == [uuid |-> "11111111-1111-1111-1111-111111111111", login |-> "operator",
                email |-> "operator@example.com", name |-> "System Operator",
                is_admin |-> FALSE, roles |-> <<"operator">>]

EmptyCache == [k \in {} |-> NoUser]
\* Faulty variant: the entry stored under the login name, not the identity
insert_under_login(cache, key, value) ==
    [k \in DOMAIN cache \cup {value.login} |-> IF k = value.login THEN value ELSE cache[k]]

insert(cache, key, value) ==
    [k \in DOMAIN cache \cup {key} |-> IF k = key THEN value ELSE cache[k]]

\* Faulty variant: the record cached before the worker's failure is looked at
cached_and_joined(r, cache, joined) ==
    IF ~r.result.ok
    THEN [result |-> IF joined THEN r.result
                     ELSE UserErr("Internal error during authentication: " \o ErrText("join")),
          ops |-> r.ops, cache |-> cache]
    ELSE [result |-> IF joined THEN r.result
                     ELSE UserErr("Internal error during authentication: " \o ErrText("join")),
          ops |-> r.ops, cache |-> insert(cache, r.result.val.uuid, r.result.val)]

\* spawn_blocking(...).await.map_err(...)?? and cache.insert(uuid, user):
\* r is what authenticate_ldap returned, joined tells whether the worker was.
joined_and_cached(r, cache, joined) ==
    IF ~joined
    THEN [result |-> UserErr("Internal error during authentication: " \o ErrText("join")), ops |-> r.ops, cache |-> cache]
    ELSE IF ~r.result.ok
    THEN [result |-> r.result, ops |-> r.ops, cache |-> cache]
    ELSE [result |-> r.result, ops |-> r.ops,
          cache |-> insert(cache, r.result.val.uuid, r.result.val)]

\* the HTTP fallback's success: the user of the service's answer, cached
api_user(u, cache) == [result |-> UserOk(u), ops |-> <<"http">>, cache |-> insert(cache, u.uuid, u)]

\* UfdsService::authenticate past the development pairs: native LDAP when
\* ldaps_url is an ldap:// or ldaps:// URL, the HTTP API otherwise.
directory_authenticate(this, cache, username, password, dir) ==
    IF this.ldaps_url.scheme = "ldap" \/ this.ldaps_url.scheme = "ldaps"
    THEN joined_and_cached(authenticate_ldap(this, username, password, dir), cache, dir.worker)
    ELSE \* POST {api_url}/auth; the answer of the HTTP service is dir's
         IF ~dir.connect
         THEN [result |-> UserErr("Cannot connect to authentication service. " \o ErrText("http")),
               ops |-> <<"http">>, cache |-> cache]
         ELSE IF ~dir.bind \/ dir.entries = <<>>
         THEN [result |-> UserErr("UFDS authentication failed: " \o ErrText("status")),
               ops |-> <<"http">>, cache |-> cache]
         ELSE api_user(user_of_entry(dir.entries[1], username), cache)

\* Faulty variant: the development pairs removed: every login goes to the directory
UfdsService_authenticate_no_bypass(this, cache, username, password, dir) ==
    directory_authenticate(this, cache, username, password, dir)

\* UfdsService::authenticate: the result, the directory operations attempted
\* and the service's cache afterwards.
UfdsService_authenticate(this, cache, username, password, dir) ==
    IF username = "admin" /\ password = "admin"
    THEN [result |-> UserOk(DevAdmin), ops |-> <<>>, cache |-> cache]
    ELSE IF username = "operator" /\ password = "operator"
    THEN [result |-> UserOk(DevOperator), ops |-> <<>>, cache |-> cache]
    ELSE directory_authenticate(this, cache, username, password, dir)

\* Faulty variant: the login name given as the user's id
UserInfo_by_login(u) == [id |-> u.login, name |-> u.name, email |-> u.email, roles |-> u.roles]

NoUserInfo == [id |-> "", name |-> "", email |-> "", roles |-> <<>>]
UserInfo(u) == [id |-> u.uuid, name |-> u.name, email |-> u.email, roles |-> u.roles]
LoginOk(token, user) ==
    [status |-> 200, token |-> token, user |-> user, code |-> "", message |-> ""]
\* Faulty variant: the failure reported as AppError::InternalServerError
InternalServerError(msg) ==
    [status |-> 500, token |-> NoToken, user |-> NoUserInfo, code |-> "InternalServerError",
     message |-> "Internal server error: " \o msg]

\* AppError::AuthError through error_response / status_code
AuthError(msg) ==
    [status |-> 401, token |-> NoToken, user |-> NoUserInfo, code |-> "AuthError",
     message |-> "Authentication error: " \o msg]

\* The rest of auth::authenticate and of the login handler once
\* ufds_service.authenticate has returned r.
login_response(cfg, ufds_service, r, time) ==
    [response |-> IF r.result.ok
                  THEN LoginOk(create_token(cfg.jwt_secret, r.result.val.uuid, r.result.val.name,
                                            r.result.val.email, r.result.val.roles,
                                            cfg.jwt_expiration, time),
                               UserInfo(r.result.val))
                  ELSE AuthError(r.result.err),
     claims |-> IF r.result.ok
                THEN claims_at(r.result.val.uuid, r.result.val.name, r.result.val.email,
                               r.result.val.roles, cfg.jwt_expiration, time)
                ELSE NoClaims,
     ops |-> r.ops,
     service |-> [ldaps_url |-> ufds_service.ldaps_url, cache |-> r.cache,
                  ldap_verify_certs |-> ufds_service.ldap_verify_certs]]

with_service(cfg, ufds_service, username, password, dir, time) ==
    login_response(cfg, ufds_service,
                   UfdsService_authenticate(ufds_service, EmptyCache, username, password, dir),
                   time)

\* auth::authenticate and the login handler: a fresh UfdsService per call.
authenticate(cfg, username, password, dir, time) ==
    with_service(cfg, UfdsService_new(cfg.ufds_url), username, password, dir, time)

\* -------------------------------------------------------------------- gate
NilUuid == "00000000-0000-0000-0000-000000000000"
HexDigits == {"0", "1", "2", "3", "4", "5", "6", "7", "8", "9", "a", "b", "c", "d", "e", "f"}
UuidLen == 36
UuidHyphens == {9, 14, 19, 24}

\* Faulty variant: the subject taken as it is
parse_uuid_unchecked(s) == s

\* Uuid::parse_str(s).unwrap_or_else(|_| Uuid::nil()), for hyphenated text
parse_uuid(s) ==
    IF Len(s) = UuidLen
       /\ \A i \in 1..UuidLen :
            IF i \in UuidHyphens THEN SubSeq(s, i, i) = "-" ELSE SubSeq(s, i, i) \in HexDigits
    THEN s ELSE NilUuid

NoPrincipal == [present |-> FALSE, id |-> "", name |-> "", email |-> "", roles |-> <<>>]
Principal(claims) ==
    [present |-> TRUE, id |-> parse_uuid(claims.sub), name |-> claims.name,
     email |-> claims.email, roles |-> claims.roles]

NoHeader == [present |-> FALSE, visible |-> TRUE, text |-> Text("", NoToken)]
\* a header whose bytes are not visible ASCII: to_str() fails
OpaqueHeader == [present |-> TRUE, visible |-> FALSE, text |-> Text("", NoToken)]
Header(text) == [present |-> TRUE, visible |-> TRUE, text |-> text]

Unauthorized(reason) == [status |-> 401, error |-> reason, from |-> "gate"]

\* The protected scope's routes (method, path) and its handlers, each taking
\* an AuthenticatedUser extracted from the request extensions.
Routes == {<<"GET", "/vms">>, <<"POST", "/vms">>, <<"GET", "/users">>}

\* The wrapped service: routing, AuthenticatedUser::from_request, the handler.
service_call(request, extensions) ==
    IF <<request.method, request.path>> \notin Routes
    THEN [response |-> [status |-> 404, error |-> "", from |-> "router"], handler |-> FALSE]
    ELSE IF ~extensions.present
    THEN [response |-> [status |-> 401, error |-> "User not authenticated", from |-> "extractor"],
          handler |-> FALSE]
    ELSE [response |-> [status |-> 200, error |-> "", from |-> "handler"], handler |-> TRUE]

Decision(extensions, called, rejection) ==
    [extensions |-> extensions, called |-> called, rejection |-> rejection]

\* Faulty variant: a failed verification still calls the wrapped service
verified_calls_through(v) ==
    IF v.ok
    THEN Decision(Principal(v.val), TRUE, Unauthorized(""))
    ELSE Decision(NoPrincipal, TRUE,
                  Unauthorized("Invalid token: Authentication error: " \o v.err))

\* Faulty variant: the user is inserted into the extensions before the match
verified_attaches_first(v) ==
    IF v.ok
    THEN Decision(Principal(v.val), TRUE, Unauthorized(""))
    ELSE Decision(Principal(v.val), FALSE,
                  Unauthorized("Invalid token: Authentication error: " \o v.err))

\* Faulty variant: a principal without roles is turned away
verified_needs_role(v) ==
    IF v.ok /\ v.val.roles # <<>>
    THEN Decision(Principal(v.val), TRUE, Unauthorized(""))
    ELSE Decision(NoPrincipal, FALSE,
                  Unauthorized("Invalid token: Authentication error: " \o v.err))

\* match verify_token(token, &jwt_secret) { Ok(claims) => ..., Err(e) => ... }
verified(v) ==
    IF v.ok
    THEN Decision(Principal(v.val), TRUE, Unauthorized(""))
    ELSE Decision(NoPrincipal, FALSE,
                  Unauthorized("Invalid token: Authentication error: " \o v.err))

\* AuthMiddlewareService::call past the OPTIONS test: the Authorization header.
authorize(request, jwt_secret, time) ==
    IF ~request.authorization.present
    THEN Decision(NoPrincipal, FALSE, Unauthorized("Missing authorization header"))
    ELSE IF ~request.authorization.visible
    THEN Decision(NoPrincipal, FALSE, Unauthorized("Invalid authorization header"))
    ELSE IF ~text_starts_with(request.authorization.text, "Bearer ")
    THEN Decision(NoPrincipal, FALSE, Unauthorized("Invalid authorization header format"))
    ELSE verified(verify_token(text_from(request.authorization.text, BearerLen), jwt_secret, time))

\* Faulty variant: no exemption for OPTIONS
call_without_preflight(request, jwt_secret, time) == authorize(request, jwt_secret, time)

\* AuthMiddlewareService::call up to the point where it either calls the
\* wrapped service or answers itself.
call(request, jwt_secret, time) ==
    IF request.method = "OPTIONS"
    THEN Decision(NoPrincipal, TRUE, Unauthorized(""))
    ELSE authorize(request, jwt_secret, time)

\* The request served: the gate's decision d, then the wrapped service when
\* the gate called it, its response passed back.
served(request, d, time) ==
    [req |-> request,
     at |-> time,
     extensions |-> d.extensions,
     service_called |-> d.called,
     handler_invoked |-> (d.called /\ service_call(request, d.extensions).handler),
     response |-> IF d.called THEN service_call(request, d.extensions).response ELSE d.rejection]

\* --------------------------------------------------- the /auth resources
\* The body of a response of the /auth resources: the four fields of
\* UserResponse, or the code and message of an ErrorResponse, or nothing.
NoBody == [id |-> "", name |-> "", email |-> "", roles |-> <<>>, code |-> "", message |-> ""]

\* Faulty variant: logout refuses a request without a session
logout_unauthorized ==
    [status |-> 401, body |-> [NoBody EXCEPT !.code = "AuthError"]]

\* api::auth::logout: HttpResponse::Ok().finish()
logout == [status |-> 200, body |-> NoBody]

\* api::auth::get_current_user behind its extractor
\* AuthenticatedUser::from_request, for a request with these extensions.
get_current_user(extensions) ==
    IF ~extensions.present
    THEN [status |-> 401,
          body |-> [NoBody EXCEPT !.code = "AuthError",
                                  !.message = "Authentication error: User not authenticated"]]
    ELSE [status |-> 200,
          body |-> [NoBody EXCEPT !.id = extensions.id, !.name = extensions.name,
                                  !.email = extensions.email, !.roles = extensions.roles]]

\* configure_routes registers login, logout and get_current_user on the
\* "/api" scope itself, before the scope that AuthMiddleware wraps: a request
\* they match is served without passing the gate, its extensions as the
\* server created them (no AuthenticatedUser in them).
auth_resource(request) ==
    IF request.method = "DELETE" THEN logout ELSE get_current_user(NoPrincipal)

\* ------------------------------------------------------------------- state
VARIABLES
    main,          \* "serving" once the configuration is loaded, "exited" when
                   \* loading it failed
    config,        \* the Config loaded at startup (immutable afterwards)
    now,           \* Utc::now(), seconds since the epoch
    client_token,  \* the token the client holds: the last one login returned
    login,         \* the login served last: request, response, the
                   \* Claims create_token built, the directory operations it
                   \* attempted, its UfdsService when it returned, and how the
                   \* directory behaved
    gate,          \* the protected request served last: request, time, extensions,
                   \* whether the wrapped service and a handler ran, response
    auth_api,      \* the GET or DELETE /auth request served last: request, time,
                   \* response
    calls          \* the calls of auth::authenticate in progress, step by step:
                   \* for each its position, its request, the directory's
                   \* behaviour, its result, and its UfdsService's cache and
                   \* the holder of that cache's mutex

vars == <<environment, main, config, now, client_token, login, gate, auth_api, calls>>

NoLogin ==
    [req |-> [username |-> "", password |-> ""],
     response |-> [status |-> 0, token |-> NoToken, user |-> NoUserInfo, code |-> "", message |-> ""],
     claims |-> NoClaims,
     ops |-> <<>>,
     service |-> [ldaps_url |-> Url("", ""), cache |-> EmptyCache, ldap_verify_certs |-> TRUE],
     dir |-> Directory(TRUE, TRUE, TRUE, TRUE, <<>>, TRUE, TRUE)]

NoGate ==
    [req |-> [method |-> "", path |-> "", authorization |-> NoHeader],
     at |-> 0,
     extensions |-> NoPrincipal,
     service_called |-> FALSE,
     handler_invoked |-> FALSE,
     response |-> [status |-> 0, error |-> "", from |-> ""]]

NoAuthApi ==
    [req |-> [method |-> "", path |-> "", authorization |-> NoHeader],
     at |-> 0,
     response |-> [status |-> 0, body |-> NoBody]]

\* The calls of auth::authenticate that may be in progress at once.
Calls == 1..MaxCalls

\* A call not started (or returned and forgotten).
Idle ==
    [pc |-> "idle", username |-> "", password |-> "",
     dir |-> Directory(TRUE, TRUE, TRUE, TRUE, <<>>, TRUE, TRUE), answers |-> TRUE,
     outcome |-> UserErr(""),
     result |-> UserErr(""), cache |-> EmptyCache, holder |-> 0]

\* The instants at which the clock is read: startup and the seconds around
\* the expiry (with and without leeway) of a token issued at startup.
BoundaryOffsets == {0, 1, Leeway, Leeway + 1}
Instants(hours) ==
    {T0} \cup {t \in {T0 + (IF hours > 0 THEN hours ELSE 0) * SecondsPerHour + d :
                      d \in BoundaryOffsets} : t > T0}

\* main: the configuration loaded from the environment, or the exit.
Init ==
    /\ environment \in Environments
    /\ main = IF from_env(environment).ok THEN "serving" ELSE "exited"
    /\ config = from_env(environment).val
    /\ now = T0
    /\ client_token = NoToken
    /\ login = NoLogin
    /\ gate = NoGate
    /\ auth_api = NoAuthApi
    /\ calls = [c \in Calls |-> Idle]

\* Time passes.  The login served last stays on record (its token is looked
\* at again later); the records of the other requests are closed.
Tick ==
    /\ main = "serving"
    /\ \E t \in Instants(config.jwt_expiration) : t > now /\ now' = t
    /\ gate' = NoGate
    /\ auth_api' = NoAuthApi
    /\ UNCHANGED <<environment, main, config, client_token, login, calls>>

DirUp == Directory(TRUE, TRUE, TRUE, TRUE, <<EntryAlice>>, TRUE, TRUE)
DirDown == Directory(TRUE, FALSE, TRUE, TRUE, <<EntryAlice>>, TRUE, TRUE)

\* The logins tried: the development pairs against a directory that is up or
\* down, and a directory user against every directory.
LoginAttempts ==
    ({<<"admin", "admin">>, <<"operator", "operator">>} \X {DirUp, DirDown})
    \cup ({<<"alice", "pw">>} \X Directories)

with_req(username, password, dir, r) ==
    [req |-> [username |-> username, password |-> password],
     response |-> r.response, claims |-> r.claims, ops |-> r.ops, service |-> r.service,
     dir |-> dir]

\* POST /auth: api::auth::login served from start to end.
Login ==
    \E attempt \in LoginAttempts :
        /\ main = "serving"
        /\ login' = with_req(attempt[1][1], attempt[1][2], attempt[2],
                             authenticate(config, attempt[1][1], attempt[1][2], attempt[2], now))
        /\ client_token' = IF login'.response.status = 200
                           THEN login'.response.token ELSE client_token
        /\ gate' = NoGate
        /\ auth_api' = NoAuthApi
        /\ UNCHANGED <<environment, main, config, now, calls>>

\* What a client may put after "Bearer ": the token it holds, that token
\* re-signed with another key, with edited claims under the old signature,
\* with the algorithm replaced or a segment dropped, or a token of another
\* deployment; or no token at all.
Resigned(t, key) == [t EXCEPT !.signature = Sign(key, t.alg, t.payload)]
Edited(t) ==
    [t EXCEPT !.payload = Serialize([Deserialize(t.payload) EXCEPT !.roles = <<"admin", "root">>])]
Unsigned(t) == [t EXCEPT !.alg = "none", !.signature = <<>>]
Truncated(t) == [t EXCEPT !.segments = 2, !.signature = <<>>]
ForeignClaims(time) ==
    {[sub |-> "unknown", name |-> "Mallory", email |-> "m@else", roles |-> <<"admin">>,
      iat |-> time, exp |-> e] : e \in {time - SecondsPerHour, time + SecondsPerHour}}

Held == IF client_token = NoToken THEN {} ELSE {client_token}

Candidates ==
    Held
    \cup {Resigned(t, k) : t \in Held, k \in OtherSecrets}
    \cup {Edited(t) : t \in Held}
    \cup {Unsigned(t) : t \in Held}
    \cup {Truncated(t) : t \in Held}
    \cup {encode("HS256", c, k) : c \in ForeignClaims(now), k \in OtherSecrets}
    \cup {NoToken}

BadPrefixes == {"", "bearer ", "Bearer", "Basic "}

Authorizations ==
    {NoHeader, OpaqueHeader, Header(Text("Bearer garbage", NoToken))}
    \cup {Header(Text("Bearer ", t)) : t \in Candidates}
    \cup {Header(Text(p, client_token)) : p \in BadPrefixes}

\* The requests tried: every header on a routed GET, the held token on the
\* other routes, the held token and no header on a path without a route, and
\* pre-flight requests without a header, with the held token and with a bad
\* header.
Requests ==
    {[method |-> "GET", path |-> "/vms", authorization |-> a] : a \in Authorizations}
    \cup {[method |-> r[1], path |-> r[2], authorization |-> Header(Text("Bearer ", client_token))] :
            r \in Routes}
    \cup {[method |-> "GET", path |-> "/nowhere", authorization |-> a] :
            a \in {NoHeader, Header(Text("Bearer ", client_token))}}
    \cup {[method |-> "OPTIONS", path |-> "/vms", authorization |-> a] :
            a \in {NoHeader, Header(Text("Bearer ", client_token)), Header(Text("Basic ", NoToken))}}

\* One request to the protected scope, served from start to end.
Request ==
    \E request \in Requests :
        /\ main = "serving"
        /\ gate' = served(request, call(request, config.jwt_secret, now), now)
        /\ login' = NoLogin
        /\ auth_api' = NoAuthApi
        /\ UNCHANGED <<environment, main, config, now, client_token, calls>>

\* The requests to the /auth resources tried: GET and DELETE, without a
\* header and with the held token.
AuthRequests ==
    {[method |-> m, path |-> "/auth", authorization |-> a] :
        m \in {"GET", "DELETE"}, a \in {NoHeader, Header(Text("Bearer ", client_token))}}

\* One GET /auth (api::auth::get_current_user) or DELETE /auth
\* (api::auth::logout), served from start to end.
AuthRequest ==
    \E request \in AuthRequests :
        /\ main = "serving"
        /\ auth_api' = [req |-> request, at |-> now, response |-> auth_resource(request)]
        /\ login' = NoLogin
        /\ gate' = NoGate
        /\ UNCHANGED <<environment, main, config, now, client_token, calls>>

Next == Tick \/ Login \/ Request \/ AuthRequest

Spec == Init /\ [][Next]_vars

\* ------------------------------------------- authenticate, step by step
\* The same entry as EntryAlice after the directory changed her name and
\* groups: the same identity with another record.
EntryAliceLater == Entry(<<"aaaaaaaa-aaaa-4aaa-8aaa-aaaaaaaaaaaa">>, <<"Alice">>, <<"Li">>, <<"alice">>,
                         <<"alice@corp">>, <<"cn=readers,ou=groups,o=smartdc">>, <<>>)

\* The logins run concurrently: one identity with two records, another
\* identity, a refused bind, and a development pair.
ConcurrentAttempts ==
    {<<"alice", "pw", Directory(TRUE, TRUE, TRUE, TRUE, <<EntryAlice>>, TRUE, TRUE)>>,
     <<"alice", "pw", Directory(TRUE, TRUE, TRUE, TRUE, <<EntryAliceLater>>, TRUE, TRUE)>>,
     <<"root", "pw", Directory(TRUE, TRUE, TRUE, TRUE, <<EntryRoot>>, TRUE, TRUE)>>,
     <<"alice", "bad", Directory(TRUE, TRUE, FALSE, TRUE, <<EntryAlice>>, TRUE, TRUE)>>,
     <<"admin", "admin", Directory(TRUE, TRUE, TRUE, TRUE, <<>>, TRUE, TRUE)>>}

\* Faulty variant: the directory operation run where it is called
run_on_executor == "executor"

\* tokio::task::spawn_blocking: the thread the closure runs on
spawn_blocking == "blocking pool"

\* The worker's executor thread is free to poll a task: no call is inside a
\* directory operation on that thread.
ExecutorFree == \A c \in Calls : calls[c].pc = "blocking" => spawn_blocking # "executor"

\* The directory server falls silent, or not, during one of the logins.
SilentAttempts == {<<"alice", "pw", Directory(TRUE, TRUE, TRUE, TRUE, <<EntryAlice>>, TRUE, TRUE)>>}

\* auth::authenticate is entered: UfdsService::new builds the call's own
\* service, with its own empty cache behind its own mutex.  Whether the
\* directory server will answer this call at all is the server's choice;
\* outcome is what ufds_service.authenticate is to return for this request
\* against this directory once it returns.
CallStart(c) ==
    /\ calls[c].pc = "idle"
    /\ ExecutorFree
    /\ \E a \in ConcurrentAttempts : \E answers \in (IF a \in SilentAttempts THEN BOOLEAN ELSE {TRUE}) :
          calls' = [calls EXCEPT ![c] =
                      [pc |-> "authenticate", username |-> a[1], password |-> a[2], dir |-> a[3],
                       answers |-> answers,
                       outcome |-> UfdsService_authenticate(UfdsService_new(config.ufds_url),
                                                            EmptyCache, a[1], a[2], a[3]).result,
                       result |-> UserErr(""), cache |-> EmptyCache, holder |-> 0]]
    /\ UNCHANGED <<environment, main, config, now, client_token, login, gate, auth_api>>

\* UfdsService::authenticate up to the cache block: the development pairs
\* and a failure return; a directory user goes on to the cache.
answered(this_call, r) ==
    [this_call EXCEPT !.result = r,
                 !.pc = IF r.ok /\ r # UserOk(DevAdmin) /\ r # UserOk(DevOperator)
                        THEN "lock" ELSE "return"]

\* UfdsService::authenticate up to spawn_blocking(..).await: a development
\* pair returns; any other call hands authenticate_ldap to spawn_blocking and
\* awaits it.
spawned(this_call, r) ==
    IF r = UserOk(DevAdmin) \/ r = UserOk(DevOperator)
    THEN answered(this_call, r)
    ELSE [this_call EXCEPT !.pc = "blocking"]

CallAuthenticate(c) ==
    /\ calls[c].pc = "authenticate"
    /\ ExecutorFree
    /\ calls' = [calls EXCEPT ![c] = spawned(calls[c], calls[c].outcome)]
    /\ UNCHANGED <<environment, main, config, now, client_token, login, gate, auth_api>>

\* authenticate_ldap ends (LdapConn has no connection or operation timeout:
\* it ends only when the server answers or the connection fails) and the
\* awaiting task takes its result.
CallJoin(c) ==
    /\ calls[c].pc = "blocking"
    /\ calls[c].answers
    /\ calls' = [calls EXCEPT ![c] = answered(calls[c], calls[c].outcome)]
    /\ UNCHANGED <<environment, main, config, now, client_token, login, gate, auth_api>>

\* let mut cache = self.cache.lock().await: granted when no one holds it.
CallLock(c) ==
    /\ calls[c].pc = "lock"
    /\ ExecutorFree
    /\ calls[c].holder = 0
    /\ calls' = [calls EXCEPT ![c].holder = c, ![c].pc = "insert"]
    /\ UNCHANGED <<environment, main, config, now, client_token, login, gate, auth_api>>

\* cache.insert(user_result.uuid.clone(), user_result.clone())
CallInsert(c) ==
    /\ calls[c].pc = "insert"
    /\ ExecutorFree
    /\ calls[c].holder = c
    /\ calls' = [calls EXCEPT ![c].cache = insert(calls[c].cache, calls[c].result.val.uuid,
                                                 calls[c].result.val),
                              ![c].pc = "unlock"]
    /\ UNCHANGED <<environment, main, config, now, client_token, login, gate, auth_api>>

\* the guard goes out of scope at the end of the block
CallUnlock(c) ==
    /\ calls[c].pc = "unlock"
    /\ ExecutorFree
    /\ calls' = [calls EXCEPT ![c].holder = 0, ![c].pc = "return"]
    /\ UNCHANGED <<environment, main, config, now, client_token, login, gate, auth_api>>

\* auth::authenticate returns: its UfdsService is dropped, the cache with it.
CallReturn(c) ==
    /\ calls[c].pc = "return"
    /\ ExecutorFree
    /\ calls' = [calls EXCEPT ![c].pc = "done", ![c].cache = EmptyCache]
    /\ UNCHANGED <<environment, main, config, now, client_token, login, gate, auth_api>>

\* the call's record is forgotten; another call may start
CallForget(c) ==
    /\ calls[c].pc = "done"
    /\ calls' = [calls EXCEPT ![c] = Idle]
    /\ UNCHANGED <<environment, main, config, now, client_token, login, gate, auth_api>>

\* The protected request served while the calls are in progress.
ConcurrentRequests == {[method |-> "GET", path |-> "/vms", authorization |-> NoHeader]}

ConcurrentRequest ==
    /\ ExecutorFree
    /\ \E request \in ConcurrentRequests :
          gate' = served(request, call(request, config.jwt_secret, now), now)
    /\ UNCHANGED <<environment, main, config, now, client_token, login, auth_api, calls>>

ConcurrentInit ==
    /\ environment = Env(Set("s1"), Set("1"), Set(Url("ldaps", "ufds")), Unset)
    /\ main = "serving"
    /\ config = from_env(environment).val
    /\ now = T0
    /\ client_token = NoToken
    /\ login = NoLogin
    /\ gate = NoGate
    /\ auth_api = NoAuthApi
    /\ calls = [c \in Calls |-> Idle]

ConcurrentNext ==
    \/ ConcurrentRequest
    \/ \E c \in Calls :
        \/ CallStart(c)
        \/ CallAuthenticate(c)
        \/ CallJoin(c)
        \/ CallLock(c)
        \/ CallInsert(c)
        \/ CallUnlock(c)
        \/ CallReturn(c)
        \/ CallForget(c)

ConcurrentSpec == ConcurrentInit /\ [][ConcurrentNext]_vars

\* The runtime polls every task that can proceed, and a closure handed to
\* the blocking pool runs; whether the directory server answers is not the
\* runtime's to decide (CallJoin is enabled only when it does).
ConcurrentFairSpec ==
    /\ ConcurrentSpec
    /\ WF_vars(ConcurrentRequest)
    /\ \A c \in Calls :
          /\ WF_vars(CallAuthenticate(c))
          /\ WF_vars(CallJoin(c))
          /\ WF_vars(CallLock(c))
          /\ WF_vars(CallInsert(c))
          /\ WF_vars(CallUnlock(c))
          /\ WF_vars(CallReturn(c))

\* ---------------------------------------------- the roles of an entry
\* memberof values of the directory: group DNs with and without spaces, a
\* group under a cn= container, the admin group, and a DN without cn=.
GroupDNs ==
    {"cn=operators, ou=groups, o=smartdc", "cn=readers,cn=groups,o=smartdc",
     "cn=admin,ou=groups,o=smartdc", "ou=misc,o=smartdc", "o=smartdc,cn=top"}
MemberOfs ==
    {<<>>} \cup {<<g>> : g \in GroupDNs} \cup {<<g, h>> : g \in GroupDNs, h \in GroupDNs}

RoleEntries ==
    {Entry(<<"cccccccc-cccc-4ccc-8ccc-cccccccccccc">>, <<"Carol">>, <<>>, <<"carol">>, <<>>,
           memberof, isAdmin) : memberof \in MemberOfs,
                               isAdmin \in {<<>>, <<"true">>, <<"false">>, <<"true", "false">>}}

\* Logins of a directory user whose entry has each memberof and isAdmin.
RolesNext ==
    \E entry \in RoleEntries :
        /\ login' = with_req("carol", "pw", Directory(TRUE, TRUE, TRUE, TRUE, <<entry>>, TRUE, TRUE),
                             authenticate(config, "carol", "pw",
                                          Directory(TRUE, TRUE, TRUE, TRUE, <<entry>>, TRUE, TRUE),
                                          now))
        /\ UNCHANGED <<environment, main, config, now, client_token, gate, auth_api, calls>>

RolesSpec == ConcurrentInit /\ [][RolesNext]_vars

\* ------------------------------------------------------------- observations
GateServed == gate.req.method # ""
LoginServed == login.response.status # 0

AuthApiServed == auth_api.req.method # ""

\* What verify_token answers for the bearer token of the /auth request served.
AuthApiVerification ==
    IF /\ auth_api.req.authorization.present
       /\ auth_api.req.authorization.visible
       /\ starts_with(auth_api.req.authorization.text.pre, "Bearer ")
    THEN verify_token(text_from(auth_api.req.authorization.text, BearerLen),
                      config.jwt_secret, auth_api.at)
    ELSE Err("no bearer token")

\* The served request carries a header that is text beginning with "Bearer ".
HasBearer ==
    /\ gate.req.authorization.present
    /\ gate.req.authorization.visible
    /\ starts_with(gate.req.authorization.text.pre, "Bearer ")

\* The candidate token of the served request: the text after "Bearer ".
Presented ==
    IF HasBearer THEN text_from(gate.req.authorization.text, BearerLen) ELSE Text("", NoToken)

\* What verify_token answers for the candidate token of the served request
\* at the time it was served.
Verification ==
    IF HasBearer THEN verify_token(Presented, config.jwt_secret, gate.at) ELSE Err("no bearer token")

\* The candidate is a complete HS256 token with a three-part signature.
WellFormed ==
    /\ HasBearer
    /\ Presented.pre = ""
    /\ Presented.tok.segments = 3
    /\ Presented.tok.alg = "HS256"
    /\ Len(Presented.tok.signature) = 3

\* ... signed with this deployment's secret over the payload it carries
SignedHere ==
    /\ WellFormed
    /\ Presented.tok.signature = Sign(config.jwt_secret, "HS256", Presented.tok.payload)

\* ... signed with a secret other than this deployment's
SignedElsewhere ==
    /\ WellFormed
    /\ Presented.tok.signature[1] # config.jwt_secret

\* The gate's decision for the served request is Rejected (steps 2 to 5 of
\* its state machine).
Rejected ==
    /\ GateServed
    /\ gate.req.method # "OPTIONS"
    /\ ~Verification.ok

GateReasons ==
    {"Missing authorization header", "Invalid authorization header",
     "Invalid authorization header format"}

DevPairs == {[username |-> "admin", password |-> "admin"],
             [username |-> "operator", password |-> "operator"]}

\* ------------------------------------------------------------------ claims

\* C1: a request the gate rejects is answered 401 with the body
\* {"error": reason}, and neither the wrapped service nor a handler runs.
C1_RejectedIs401 ==
    Rejected =>
        /\ gate.response.status = 401
        /\ gate.response.from = "gate"
        /\ \/ gate.response.error \in GateReasons
           \/ starts_with(gate.response.error, "Invalid token: ")
        /\ ~gate.service_called
        /\ ~gate.handler_invoked

C1_Witness ==
    /\ Rejected
    /\ SignedElsewhere
    /\ gate.response.error = "Invalid token: Authentication error: Invalid token: InvalidSignature"

\* C2: a request that is not pre-flight is answered 401 when it has no
\* Authorization header (error exactly "Missing authorization header"), when
\* the header does not begin with "Bearer ", and when "Bearer " is followed by
\* nothing or by text that is no token.
C2_BadHeaderIs401 ==
    (GateServed /\ gate.req.method # "OPTIONS") =>
        /\ ~gate.req.authorization.present =>
              /\ gate.response.status = 401
              /\ gate.response.from = "gate"
              /\ gate.response.error = "Missing authorization header"
        /\ (gate.req.authorization.present /\ ~HasBearer) =>
              (gate.response.status = 401 /\ gate.response.from = "gate")
        /\ (HasBearer /\ (Presented.pre # "" \/ ~WellFormed)) =>
              (gate.response.status = 401 /\ gate.response.from = "gate")

C2_Witness ==
    /\ GateServed
    /\ gate.req.method = "GET"
    /\ gate.req.authorization.present
    /\ gate.req.authorization.text.pre = "bearer "
    /\ gate.req.authorization.text.tok # NoToken
    /\ gate.response.status = 401

\* C3: a pre-flight (OPTIONS) request is passed to the wrapped service
\* whatever its Authorization header is, and no principal is attached.
C3_PreflightPasses ==
    (GateServed /\ gate.req.method = "OPTIONS") =>
        /\ gate.service_called
        /\ ~gate.extensions.present
        /\ gate.response.from # "gate"

C3_Witness ==
    /\ GateServed
    /\ gate.req.method = "OPTIONS"
    /\ ~gate.req.authorization.present
    /\ gate.service_called

\* C4: a handler runs only for a request whose extensions hold the principal
\* built from the claims of a token that verified; a request the gate answers
\* itself has no principal attached.
C4_HandlerNeedsVerifiedPrincipal ==
    GateServed =>
        /\ gate.handler_invoked =>
              /\ gate.extensions.present
              /\ Verification.ok
              /\ gate.extensions = Principal(Verification.val)
        /\ gate.extensions.present => Verification.ok
        /\ gate.response.from = "gate" => ~gate.extensions.present

C4_Witness ==
    /\ GateServed
    /\ gate.response.from = "gate"
    /\ SignedHere
    /\ ~gate.extensions.present

\* C5: verify_token, with the same secret and before exp, gives back exactly
\* the claims create_token put into the token.
C5_RoundTrip ==
    (login.response.status = 200 /\ now < login.claims.exp) =>
        verify_token(Text("", login.response.token), config.jwt_secret, now) = Ok(login.claims)

C5_Witness ==
    /\ login.response.status = 200
    /\ login.claims.iat < now
    /\ now < login.claims.exp
    /\ login.claims.roles = <<"operators", "admin">>

\* C6: a token signed with another secret never verifies: verify_token
\* answers InvalidSignature whatever its claims and expiry, and the gate 401.
C6_ForeignSignatureFails ==
    (GateServed /\ SignedElsewhere) =>
        /\ Verification = Err("Invalid token: InvalidSignature")
        /\ gate.req.method # "OPTIONS" => gate.response.status = 401
        /\ ~gate.extensions.present

C6_Witness ==
    /\ GateServed
    /\ SignedElsewhere
    /\ gate.req.method = "GET"
    /\ Member(Presented.tok.payload, "exp") > gate.at
    /\ gate.response.status = 401

C8_ExpiryAfterIssue ==
    login.response.status = 200 =>
        /\ Member(login.response.token.payload, "exp") > Member(login.response.token.payload, "iat")
        /\ Member(login.response.token.payload, "exp")
             = Member(login.response.token.payload, "iat") + config.jwt_expiration * SecondsPerHour

\* C9: the login of ("admin", "admin") is answered 200 with a token whose
\* subject is the nil UUID and whose roles are exactly ["admin"], and no
\* directory operation is attempted.
C9_DevAdminLogin ==
    (LoginServed /\ login.req = [username |-> "admin", password |-> "admin"]) =>
        /\ login.response.status = 200
        /\ Member(login.response.token.payload, "sub") = "00000000-0000-0000-0000-000000000000"
        /\ Member(login.response.token.payload, "roles") = <<"admin">>
        /\ login.ops = <<>>

C9_Witness ==
    /\ LoginServed
    /\ login.req = [username |-> "admin", password |-> "admin"]
    /\ login.response.status = 200
    /\ config.ufds_url.scheme = "ldap"

\* C10: with an ldap:// or ldaps:// URL configured, the login of a
\* development pair is decided by the directory: the directory is contacted.
C10_DirectoryDecides ==
    (LoginServed /\ login.req \in DevPairs /\ config.ufds_url.scheme \in {"ldap", "ldaps"}) =>
        login.ops # <<>>

\* C11: any two failed logins are answered alike: the response to a login
\* that fails at the bind, at the profile search or at the transport is the
\* same generic response.
C11_FailuresAnsweredAlike ==
    [][(LoginServed /\ LoginServed' /\ login.response.status = 401 /\ login'.response.status = 401)
          => login'.response = login.response]_vars

\* C12: every login served is answered 200 or 401; a login that returns no
\* token (the directory unreachable, TLS setup, bind, search or the blocking
\* worker failed) is answered 401 with the code AuthError.
C12_LoginIs200Or401 ==
    LoginServed =>
        /\ login.response.status \in {200, 401}
        /\ login.response.status = 200 <=> login.response.token # NoToken
        /\ login.response.token = NoToken =>
              (login.response.status = 401 /\ login.response.code = "AuthError")

C12_Witness ==
    /\ LoginServed
    /\ login.ops = <<"connect", "bind", "search">>
    /\ login.response.status = 401
    /\ login.response.message
         = "Authentication error: Internal error during authentication: <join error>"

\* C13: GET /auth with a bearer token that verifies is answered 200 with the
\* id, name, email and roles of the token's principal; without one, 401.
C13_CurrentUser ==
    (AuthApiServed /\ auth_api.req.method = "GET") =>
        IF AuthApiVerification.ok
        THEN /\ auth_api.response.status = 200
             /\ auth_api.response.body.id = Principal(AuthApiVerification.val).id
             /\ auth_api.response.body.name = AuthApiVerification.val.name
             /\ auth_api.response.body.email = AuthApiVerification.val.email
             /\ auth_api.response.body.roles = AuthApiVerification.val.roles
        ELSE auth_api.response.status = 401

\* The step serves a DELETE /auth.
LogoutStep == auth_api'.req.method = "DELETE" /\ now' = now

\* C14: DELETE /auth is answered 200 with an empty body and leaves the
\* configuration, the token the client holds and what verify_token answers
\* for it as they were; after a logout, the request that presents the held
\* token before its expiry is served as before.
C14_LogoutChangesNothing ==
    [][/\ LogoutStep =>
            /\ auth_api'.response = [status |-> 200, body |-> NoBody]
            /\ config' = config
            /\ client_token' = client_token
            /\ verify_token(Text("", client_token'), config'.jwt_secret, now')
                 = verify_token(Text("", client_token), config.jwt_secret, now)
       /\ (/\ auth_api.req.method = "DELETE"
           /\ client_token # NoToken
           /\ now <= Member(client_token.payload, "exp")
           /\ gate'.req = [method |-> "GET", path |-> "/vms",
                           authorization |-> Header(Text("Bearer ", client_token))])
          => (gate'.response.status = 200 /\ gate'.handler_invoked)
      ]_vars

C14_Witness ==
    /\ AuthApiServed
    /\ auth_api.req.method = "DELETE"
    /\ auth_api.req.authorization.present
    /\ auth_api.response.status = 200
    /\ client_token # NoToken
    /\ Member(client_token.payload, "iat") < now
    /\ now <= Member(client_token.payload, "exp")

\* The cache a request after this login finds: that of the UfdsService the
\* next auth::authenticate builds, the one of this login being dropped with
\* its service when auth::authenticate returns.
CacheOfNextService == EmptyCache

\* C15: after a successful login the directory cache holds the principal
\* under its identity, at the return of authenticate and for the requests
\* that follow.
C15_CacheHoldsPrincipal ==
    (LoginServed /\ login.response.status = 200) =>
        /\ login.response.user.id \in DOMAIN login.service.cache
        /\ UserInfo(login.service.cache[login.response.user.id]) = login.response.user
        /\ login.response.user.id \in DOMAIN CacheOfNextService

\* The complete record the call's directory lookup produced.
written(this_call) == this_call.result.val

\* C16: under every interleaving of logins, an entry of a directory cache is
\* the complete record one login wrote, under that record's identity; the
\* cache is written only by the holder of its mutex; and a step of one
\* login leaves every entry of another identity, and every other cache,
\* as it was.
C16_WholeEntryLastWriter ==
    [][\A c \in Calls :
          /\ \A k \in DOMAIN calls'[c].cache :
                /\ calls'[c].result.ok
                /\ calls'[c].cache[k] = written(calls'[c])
                /\ k = written(calls'[c]).uuid
          /\ (calls'[c].cache # calls[c].cache /\ calls'[c].cache # EmptyCache) =>
                /\ calls[c].holder = c
                /\ \A d \in Calls \ {c} : calls'[d] = calls[d]
                /\ \A k \in DOMAIN calls[c].cache :
                      k # written(calls[c]).uuid =>
                          (k \in DOMAIN calls'[c].cache /\ calls'[c].cache[k] = calls[c].cache[k])
          /\ calls'[c].pc \in {"insert", "unlock"} <=> calls'[c].holder = c
      ]_vars

C16_Witness ==
    \E c, d \in Calls :
        /\ c # d
        /\ calls[c].pc = "unlock"
        /\ calls[d].pc = "return"
        /\ DOMAIN calls[c].cache = DOMAIN calls[d].cache
        /\ DOMAIN calls[c].cache # {}
        /\ calls[c].cache # calls[d].cache

\* C17: when the token of a request verifies, the gate attaches the principal
\* with the name, email and roles of the claims and the identity parsed from
\* the subject (the nil identity when the subject is no identifier), calls
\* the wrapped service, and answers with that service's response.
C17_PrincipalFromClaims ==
    (GateServed /\ gate.req.method # "OPTIONS" /\ Verification.ok) =>
        /\ gate.extensions.present
        /\ gate.extensions.name = Verification.val.name
        /\ gate.extensions.email = Verification.val.email
        /\ gate.extensions.roles = Verification.val.roles
        /\ Len(Verification.val.sub) # UuidLen => gate.extensions.id = NilUuid
        /\ Verification.val.sub \in {EntryAlice.uuid[1], EntryRoot.uuid[1], DevOperator.uuid}
              => gate.extensions.id = Verification.val.sub
        /\ gate.service_called
        /\ gate.response.from # "gate"
        /\ gate.response = service_call(gate.req, gate.extensions).response

C17_Witness ==
    /\ GateServed
    /\ gate.req.method = "GET"
    /\ Verification.ok
    /\ Verification.val.sub = "unknown"
    /\ gate.extensions.id = NilUuid
    /\ gate.handler_invoked
    /\ gate.response.status = 200

Misconfigured ==
    \/ ~environment.JWT_SECRET.set
    \/ ~environment.UFDS_URL.set
    \/ ~parseable(environment.UFDS_URL.text)

\* C19: with the signing secret missing or a directory endpoint that cannot
\* be parsed, the process exits at startup and serves no login.
C19_MisconfigurationIsFatal ==
    Misconfigured => (main = "exited" /\ ~LoginServed)

\* The login served reached a certificate-secured endpoint whose certificate
\* is invalid, and the connection was made all the same.
InvalidCertificateAccepted ==
    /\ LoginServed
    /\ login.service.ldaps_url.scheme = "ldaps"
    /\ ~login.dir.cert
    /\ Len(login.ops) >= 2

\* C20: with LDAP_VERIFY_CERTIFICATES unset the service verifies
\* certificates, and a login goes past an invalid certificate of a secured
\* endpoint only when the variable is set to "false" (in any case of letters).
C20_VerificationDefaultsOn ==
    /\ (LoginServed /\ ~environment.LDAP_VERIFY_CERTIFICATES.set) =>
            login.service.ldap_verify_certs
    /\ InvalidCertificateAccepted =>
            environment.LDAP_VERIFY_CERTIFICATES \in {Set("false"), Set("False"), Set("FALSE")}
    /\ (LoginServed /\ login.service.ldap_verify_certs /\ ~login.dir.cert
            /\ login.service.ldaps_url.scheme = "ldaps" /\ login.req \notin DevPairs) =>
            login.response.status = 401

C20_Witness ==
    /\ InvalidCertificateAccepted
    /\ environment.LDAP_VERIFY_CERTIFICATES = Set("False")
    /\ login.response.status = 200

\* The call waits on a directory server that does not answer.
Stuck(c) == calls[c].pc = "blocking" /\ ~calls[c].answers

\* C21: a login waiting on the directory stalls nothing else: whatever the
\* other calls wait for, a protected request can be served, and a login of
\* a development pair that has begun reaches its return.
C21_BlockedLoginStallsNoOne ==
    /\ []((\E c \in Calls : Stuck(c)) => ENABLED ConcurrentRequest)
    /\ \A d \in Calls :
          (calls[d].pc = "authenticate" /\ calls[d].username = "admin")
              ~> (calls[d].pc = "return" /\ calls[d].result = UserOk(DevAdmin))

C21_Witness ==
    \E c, d \in Calls :
        /\ Stuck(c)
        /\ calls[d].pc = "return"
        /\ calls[d].result = UserOk(DevAdmin)
        /\ GateServed

\* C25: every login that has begun reaches its return: authenticate does
\* not wait forever on the directory.
C25_LoginCompletes ==
    \A c \in Calls : (calls[c].pc = "authenticate") ~> (calls[c].pc = "return")

Connected == connects(login.service, login.dir)
BindFailed == Connected /\ (~login.dir.bind \/ login.dir.refused)
ViaDirectory ==
    /\ LoginServed
    /\ login.req \notin DevPairs
    /\ login.dir.worker
    /\ login.service.ldaps_url.scheme = "ldaps" => login.dir.tls

\* C23: one directory authentication attempts connect, bind and search in
\* that order and each at most once; a failed connect attempts no bind; a
\* failed bind attempts no search and is answered "Authentication failed", not
\* as a connection failure; a search without entries is answered "not found
\* in directory"; and none of the three returns a principal.
C23_ConnectBindSearch ==
    ViaDirectory =>
        /\ login.ops \in {<<"connect">>, <<"connect", "bind">>, <<"connect", "bind", "search">>}
        /\ ~Connected =>
              /\ login.ops = <<"connect">>
              /\ login.response.status = 401
              /\ contains(login.response.message, "Cannot connect")
        /\ BindFailed =>
              /\ login.ops = <<"connect", "bind">>
              /\ login.response.status = 401
              /\ contains(login.response.message, "Authentication failed")
              /\ ~contains(login.response.message, "Cannot connect")
        /\ (Connected /\ ~BindFailed /\ login.dir.search /\ login.dir.entries = <<>>) =>
              /\ login.ops = <<"connect", "bind", "search">>
              /\ login.response.status = 401
              /\ contains(login.response.message, "not found in directory")

\* The entry the login served was made from.
LoginEntry == login.dir.entries[1]

\* The first cn= component of a DN: what follows the first "cn=", up to the
\* comma.
FirstCn(dn) == split_first(after_first(dn, "cn="), ",")

\* The first cn= components of the memberof values that have one, in order.
Derived ==
    [i \in DOMAIN SelectSeq(LoginEntry.memberof, has_cn) |->
        FirstCn(SelectSeq(LoginEntry.memberof, has_cn)[i])]

FlagTrue == LoginEntry.isAdmin # <<>> /\ LoginEntry.isAdmin[1] = "true"

\* C24: the roles of a login are the first cn= component of each memberof
\* value, in order, followed by "admin" exactly when the isAdmin flag is true
\* and "admin" is not among them already; so the flag never makes "admin"
\* appear twice, and without memberships and flag there is no role.
C24_RolesFromGroups ==
    (login.response.status = 200 /\ login.req \notin DevPairs) =>
        /\ login.response.user.roles =
              IF FlagTrue /\ ~seq_contains(Derived, "admin")
              THEN Derived \o <<"admin">> ELSE Derived
        /\ Cardinality({i \in DOMAIN login.response.user.roles :
                            login.response.user.roles[i] = "admin"})
              <= Cardinality({i \in DOMAIN Derived : Derived[i] = "admin"}) + 1
        /\ (LoginEntry.memberof = <<>> /\ ~FlagTrue) => login.response.user.roles = <<>>

\* ... two memberships in order, the admin group among them, and the flag
C24_Witness ==
    /\ login.response.status = 200
    /\ LoginEntry.memberof = <<"cn=readers,cn=groups,o=smartdc", "cn=admin,ou=groups,o=smartdc">>
    /\ FlagTrue
    /\ login.response.user.roles = <<"readers", "admin">>

\* The gate's decision for the served request is Allowed, with a principal
\* attached.
Allowed == GateServed /\ gate.extensions.present

\* The token a client holds changes only when a login succeeds, to the token
\* that login returns.
HeldTokenIsIssued ==
    [][client_token' # client_token =>
         /\ login'.response.status = 200
         /\ client_token' = login'.response.token
         /\ client_token'.signature = Sign(config.jwt_secret, "HS256", client_token'.payload)]_vars

IssuableSubjects ==
    {r.claims.sub :
        r \in {x \in {authenticate(config, a[1][1], a[1][2], a[2], now) : a \in LoginAttempts} :
                  x.response.status = 200}}

\* C27: the identity the gate attaches for the token of one login is not the
\* identity it attaches for the token of a login with another subject.
C27_SubjectsKeptApart ==
    (Allowed /\ Verification.ok) =>
        \A sub \in IssuableSubjects :
            sub # Verification.val.sub => parse_uuid(sub) # gate.extensions.id

C29_UserMatchesClaims ==
    login.response.status = 200 =>
        /\ \A f \in ClaimFields : HasMember(login.response.token.payload, f)
        /\ login.response.user.id = Member(login.response.token.payload, "sub")
        /\ login.response.user.name = Member(login.response.token.payload, "name")
        /\ login.response.user.email = Member(login.response.token.payload, "email")
        /\ login.response.user.roles = Member(login.response.token.payload, "roles")

C29_Witness ==
    /\ login.response.status = 200
    /\ login.req.username = "alice"
    /\ login.response.user.id = EntryAlice.uuid[1]
    /\ Member(login.response.token.payload, "sub") = EntryAlice.uuid[1]
    /\ Member(login.response.token.payload, "roles") = <<"operators", "admin">>

\* C30: a login that ends in an error issues no token, leaves the token the
\* client holds as it was, and leaves the directory cache as it found it
\* (empty: the service is the call's own).
C30_FailedLoginNoEffect ==
    [][(login'.response.status # 0 /\ login'.response.status # 200) =>
          /\ login'.response.token = NoToken
          /\ login'.claims = NoClaims
          /\ client_token' = client_token
          /\ login'.service.cache = EmptyCache]_vars

\* ... a login that failed after the search, or at the worker, while the
\* client holds the token of an earlier login
C30_Witness ==
    /\ login.response.status = 401
    /\ login.ops = <<"connect", "bind", "search">>
    /\ client_token # NoToken
    /\ login.service.cache = EmptyCache

====
